---- MODULE Spec2Model ----
(***************************************************************************)
(* A model of tools/ideviceinfo.c: the option loop of main(), the USB      *)
(* identity scan find_driver() that the -f option runs, and the tail of    *)
(* main() that opens a device and a lockdown session when -f is absent.    *)
(*                                                                         *)
(* C strings are sequences of character codes ("A1" is <<65, 49>>); a      *)
(* pointer that may be NULL is a sequence of at most one target (NULL is   *)
(* <<>>, a pointer to x is <<x>>).  stdout and stderr are the sequences of *)
(* the literals printed; calls is the sequence of the calls made to the    *)
(* USB access layer and to the device library.                             *)
(***************************************************************************)
EXTENDS Integers, Sequences, FiniteSets

VARIABLES
    argv,          \* the options of the command line, in order
    attached,      \* the USB buses and their devices that are plugged in
    pc,            \* the position of the program
    optind,        \* getopt's index of the next option of argv
    m,             \* the locals of main()
    fd,            \* the parameters and locals of find_driver()
    usb_version,   \* the USB layer's version->driver.major
    usb_busses,    \* the USB layer's bus list (usb_get_busses())
    opened,        \* the handles the USB layer has open
    out,           \* what was printed to stdout
    err,           \* what was printed to stderr
    calls,         \* the calls made to the USB layer and the device library
    retval         \* the value main() returned (a pointer: NULL while running)

vars == <<argv, attached, pc, optind, m, fd, usb_version, usb_busses, opened,
          out, err, calls, retval>>

---------------------------------------------------------------------------
(* Bounds of the model *)

MaxArgs == 3
MaxBusses == 2
MaxDevices == 2

---------------------------------------------------------------------------
(* Program constants *)

VID_APPLE == 1452
FORMAT_KEY_VALUE == 1
FORMAT_XML == 2
DEV_SERIAL_SIZE == 100
ASSISTIVE_GET == 10

NULL == <<>>
Ptr(x) == <<x>>
Deref(p) == p[1]

---------------------------------------------------------------------------
(* The C library functions the program calls *)

\* strcmp: the difference of the first characters that differ, the end of a
\* string counting as the character 0.
RECURSIVE strcmp(_, _)
strcmp(a, b) ==
    IF a = <<>> /\ b = <<>> THEN 0
    ELSE IF a = <<>> THEN 0 - Head(b)
    ELSE IF b = <<>> THEN Head(a)
    ELSE IF Head(a) # Head(b) THEN Head(a) - Head(b)
    ELSE strcmp(Tail(a), Tail(b))

IsSpace(c) == c = 32 \/ c \in 9..13
IsDigit(c) == c \in 48..57

RECURSIVE SkipSpace(_)
SkipSpace(s) == IF s # <<>> /\ IsSpace(Head(s)) THEN SkipSpace(Tail(s)) ELSE s

RECURSIVE Digits(_, _)
Digits(s, acc) ==
    IF s # <<>> /\ IsDigit(Head(s))
    THEN Digits(Tail(s), acc * 10 + (Head(s) - 48))
    ELSE acc

\* atoi: leading white space, an optional sign, then the decimal digits; 0
\* when there is no digit.
atoi(s) ==
    LET t == SkipSpace(s)
    IN  IF t # <<>> /\ Head(t) = 45 THEN 0 - Digits(Tail(t), 0)
        ELSE IF t # <<>> /\ Head(t) = 43 THEN Digits(Tail(t), 0)
        ELSE Digits(t, 0)

\* usb_get_string_simple(handle, index, buf, buflen): a negative error code
\* with buf untouched, or the descriptor's string cut to buflen - 1
\* characters, written to buf, and its length.
usb_get_string_simple(device, buflen) ==
    IF device.readErr < 0
    THEN [ret |-> device.readErr, written |-> FALSE, buf |-> <<>>]
    ELSE LET n == IF Len(device.serial) < buflen - 1
                  THEN Len(device.serial) ELSE buflen - 1
         IN  [ret |-> n, written |-> TRUE, buf |-> SubSeq(device.serial, 1, n)]

---------------------------------------------------------------------------
(* The inputs: command lines and sets of attached devices *)

S_A1 == <<65, 49>>      \* "A1"
S_a1 == <<97, 49>>      \* "a1"
S_1 == <<49>>           \* "1"

Opt(c, a) == [opt |-> c, arg |-> a]

\* What getopt_long can hand to the switch: the option character and optarg
\* ("?" is getopt's answer for an unknown option or a missing argument).
Options ==
    { Opt("u", <<>>), Opt("u", S_A1), Opt("u", S_a1),
      Opt("f", <<>>), Opt("f", S_1),
      Opt("h", <<>>), Opt("v", <<>>),
      Opt("q", <<>>), Opt("k", <<107>>),
      Opt("s", <<>>), Opt("a", <<>>), Opt("g", <<>>),
      Opt("?", <<>>) }

ArgvAll == UNION { [1..k -> Options] : k \in 0..MaxArgs }

ArgvFind ==
    { <<Opt("f", S_1)>> } \cup { <<Opt("u", s), Opt("f", S_1)>> : s \in {S_A1, S_a1} }

Dev(v, p, o, e, s) ==
    [idVendor |-> v, idProduct |-> p, openOk |-> o, readErr |-> e, serial |-> s]

\* The kinds of attached device: one of another vendor, one of another
\* product, one that cannot be opened, one whose descriptor read fails, one
\* with an empty serial number, and two whose serial numbers differ in case.
DeviceKinds ==
    { Dev(VID_APPLE + 1, 1, TRUE, 0, S_A1),
      Dev(VID_APPLE, 2, TRUE, 0, S_A1),
      Dev(VID_APPLE, 1, FALSE, 0, S_A1),
      Dev(VID_APPLE, 1, TRUE, 0 - 5, S_A1),
      Dev(VID_APPLE, 1, TRUE, 0, <<>>),
      Dev(VID_APPLE, 1, TRUE, 0, S_A1),
      Dev(VID_APPLE, 1, TRUE, 0, S_a1) }

NonDecreasing(f, k) == \A i \in 1..k : \A j \in i..k : f[i] <= f[j]

\* The bus list of n buses that holds the devices flat[i], in order, device i
\* on bus busOf[i].
BusList(n, flat, busOf) ==
    [b \in 1..n |->
        LET on == { i \in 1..Len(flat) : busOf[i] = b }
            first == CHOOSE i \in on : \A j \in on : i <= j
        IN  [j \in 1..Cardinality(on) |-> flat[first + j - 1]]]

\* Every list of at most nb buses holding at most nd devices in all.
Worlds(nb, nd) ==
    UNION { UNION { { BusList(n, flat, busOf) :
                        busOf \in { f \in [1..k -> 1..n] : NonDecreasing(f, k) } } :
                    flat \in [1..k -> DeviceKinds] } :
            n \in 0..nb, k \in 0..nd }

---------------------------------------------------------------------------
(* The initial state *)

MainLocals ==
    [udid |-> NULL, use_network |-> 0, simple |-> 0, format |-> FORMAT_KEY_VALUE,
     domain |-> NULL, key |-> NULL, assistive_func |-> 0, assistive_enable |-> 0,
     device |-> NULL, client |-> NULL]

FindLocals ==
    [pid |-> 0, udid |-> NULL, bus |-> 0, dev |-> 0, handle |-> NULL,
     ret |-> 0, dev_serial |-> <<>>, result |-> FALSE]

\* The command line and the attached devices are the inputs: every command
\* line of at most MaxArgs options with at most one device attached, and the
\* find command lines with every bus list of at most MaxBusses buses and
\* MaxDevices devices.
Init ==
    /\ \/ argv \in ArgvAll /\ attached \in Worlds(1, 1)
       \/ argv \in ArgvFind /\ attached \in Worlds(MaxBusses, MaxDevices)
    /\ pc = "getopt"
    /\ optind = 1
    /\ m = MainLocals
    /\ fd = FindLocals
    /\ usb_version = 0 - 1
    /\ usb_busses = <<>>
    /\ opened = {}
    /\ out = <<>>
    /\ err = <<>>
    /\ calls = <<>>
    /\ retval = NULL

---------------------------------------------------------------------------
(* Helpers of the actions *)

Call(fn) == [fn |-> fn, bus |-> 0, dev |-> 0]
DevCall(fn, b, d) == [fn |-> fn, bus |-> b, dev |-> d]

\* The option getopt_long hands to the switch in this iteration.
CurOpt == argv[optind]
InSwitch(cs) == pc = "getopt" /\ optind <= Len(argv) /\ CurOpt.opt \in cs

\* What an uninitialised char buffer can hold when it is read as a string.
Indeterminate == { S_A1, S_a1, <<63>> }

FindUnchanged == UNCHANGED <<fd, usb_version, usb_busses, opened>>
MainUnchanged == UNCHANGED <<argv, attached, optind, m, retval>>

---------------------------------------------------------------------------
(* main(): the option loop *)

\* case 'd', 'n', 'x', 's': set a local (or the debug level) and go on.
OptFlag ==
    /\ InSwitch({"d", "n", "x", "s"})
    /\ optind' = optind + 1
    /\ m' = CASE CurOpt.opt = "n" -> [m EXCEPT !.use_network = 1]
              [] CurOpt.opt = "x" -> [m EXCEPT !.format = FORMAT_XML]
              [] CurOpt.opt = "s" -> [m EXCEPT !.simple = 1]
              [] OTHER -> m
    /\ calls' = IF CurOpt.opt = "d"
                THEN Append(calls, Call("idevice_set_debug_level"))
                ELSE calls
    /\ UNCHANGED <<argv, attached, pc, out, err, retval>>
    /\ FindUnchanged

\* OptUdid that keeps the first UDID given.
OptUdid_KeepFirst ==
    /\ InSwitch({"u"})
    /\ optind' = optind + 1
    /\ IF CurOpt.arg = <<>>
       THEN /\ err' = err \o <<"ERROR: UDID must not be empty!", "Usage">>
            /\ retval' = Ptr(2)
            /\ pc' = "exit"
            /\ m' = m
       ELSE /\ m' = IF m.udid = NULL THEN [m EXCEPT !.udid = Ptr(CurOpt.arg)] ELSE m
            /\ UNCHANGED <<err, retval, pc>>
    /\ UNCHANGED <<argv, attached, out, calls>>
    /\ FindUnchanged

\* case 'u': an empty UDID ends the program with 2, any other is kept.
OptUdid ==
    /\ InSwitch({"u"})
    /\ optind' = optind + 1
    /\ IF CurOpt.arg = <<>>
       THEN /\ err' = err \o <<"ERROR: UDID must not be empty!", "Usage">>
            /\ retval' = Ptr(2)
            /\ pc' = "exit"
            /\ m' = m
       ELSE /\ m' = [m EXCEPT !.udid = Ptr(CurOpt.arg)]
            /\ UNCHANGED <<err, retval, pc>>
    /\ UNCHANGED <<argv, attached, out, calls>>
    /\ FindUnchanged

\* case 'q'
OptDomain ==
    /\ InSwitch({"q"})
    /\ optind' = optind + 1
    /\ IF CurOpt.arg = <<>>
       THEN /\ err' = err \o <<"ERROR: 'domain' must not be empty!", "Usage">>
            /\ retval' = Ptr(2)
            /\ pc' = "exit"
            /\ m' = m
       ELSE /\ m' = [m EXCEPT !.domain = Ptr(CurOpt.arg)]
            /\ UNCHANGED <<err, retval, pc>>
    /\ UNCHANGED <<argv, attached, out, calls>>
    /\ FindUnchanged

\* case 'k'
OptKey ==
    /\ InSwitch({"k"})
    /\ optind' = optind + 1
    /\ IF CurOpt.arg = <<>>
       THEN /\ err' = err \o <<"ERROR: 'key' must not be empty!", "Usage">>
            /\ retval' = Ptr(2)
            /\ pc' = "exit"
            /\ m' = m
       ELSE /\ m' = [m EXCEPT !.key = Ptr(CurOpt.arg)]
            /\ UNCHANGED <<err, retval, pc>>
    /\ UNCHANGED <<argv, attached, out, calls>>
    /\ FindUnchanged

\* case 'h': the usage on stdout, return 0.
OptHelp ==
    /\ InSwitch({"h"})
    /\ optind' = optind + 1
    /\ out' = Append(out, "Usage")
    /\ retval' = Ptr(0)
    /\ pc' = "exit"
    /\ UNCHANGED <<argv, attached, m, err, calls>>
    /\ FindUnchanged

\* case 'v': the version on stdout, return 0.
OptVersion ==
    /\ InSwitch({"v"})
    /\ optind' = optind + 1
    /\ out' = Append(out, "ideviceinfo PACKAGE_VERSION")
    /\ retval' = Ptr(0)
    /\ pc' = "exit"
    /\ UNCHANGED <<argv, attached, m, err, calls>>
    /\ FindUnchanged

\* case 'a', 'r', 'g'
OptAssistive ==
    /\ InSwitch({"a", "r", "g"})
    /\ optind' = optind + 1
    /\ m' = [m EXCEPT !.assistive_func = 1,
                      !.assistive_enable = CASE CurOpt.opt = "a" -> 1
                                             [] CurOpt.opt = "r" -> 0
                                             [] OTHER -> ASSISTIVE_GET]
    /\ UNCHANGED <<argv, attached, pc, out, err, calls, retval>>
    /\ FindUnchanged

\* case 'f': an empty argument returns 0 at once; any other calls
\* find_driver(atoi(optarg), udid) with the udid seen so far.
OptFind ==
    /\ InSwitch({"f"})
    /\ optind' = optind + 1
    /\ IF CurOpt.arg = <<>>
       THEN /\ retval' = Ptr(0)
            /\ pc' = "exit"
            /\ fd' = fd
       ELSE /\ fd' = [FindLocals EXCEPT !.pid = atoi(CurOpt.arg), !.udid = m.udid]
            /\ pc' = "find_driver"
            /\ retval' = retval
    /\ UNCHANGED <<argv, attached, m, out, err, calls, usb_version, usb_busses, opened>>

\* default: the usage on stderr, return 2.
OptDefault ==
    /\ pc = "getopt" /\ optind <= Len(argv)
    /\ CurOpt.opt \notin {"d", "h", "u", "n", "q", "k", "s", "x", "v", "a", "r", "g", "f"}
    /\ optind' = optind + 1
    /\ err' = Append(err, "Usage")
    /\ retval' = Ptr(2)
    /\ pc' = "exit"
    /\ UNCHANGED <<argv, attached, m, out, calls>>
    /\ FindUnchanged

\* getopt_long returns -1: the loop ends.
GetoptEnd ==
    /\ pc = "getopt" /\ optind > Len(argv)
    /\ pc' = "idevice_new"
    /\ UNCHANGED <<argv, attached, optind, m, out, err, calls, retval>>
    /\ FindUnchanged

---------------------------------------------------------------------------
(* find_driver(pid, udid) *)

CurBus == usb_busses[fd.bus]
CurDev == usb_busses[fd.bus][fd.dev]

\* The filter of the scan: the device's vendor and product ids.
FilterPasses(device, pid) ==
    ~(device.idVendor # VID_APPLE \/ device.idProduct # pid)

\* FdCheckUdid without the test of udid.
FdCheckUdid_NoTest ==
    /\ pc = "find_driver"
    /\ calls' = Append(calls, Call("usb_init"))
    /\ \E major \in {0 - 1, 1} : usb_version' = major
    /\ pc' = "fd_version"
    /\ UNCHANGED <<fd, usb_busses, opened, out, err>>
    /\ MainUnchanged

\* if (!udid) { printf("FALSE"); return; }  usb_init();
FdCheckUdid ==
    /\ pc = "find_driver"
    /\ IF fd.udid = NULL
       THEN /\ out' = Append(out, "FALSE")
            /\ pc' = "find_return"
            /\ UNCHANGED <<calls, usb_version>>
       ELSE /\ calls' = Append(calls, Call("usb_init"))
            /\ \E major \in {0 - 1, 1} : usb_version' = major
            /\ pc' = "fd_version"
            /\ out' = out
    /\ UNCHANGED <<fd, usb_busses, opened, err>>
    /\ MainUnchanged

\* FdGetVersion without the test of driver.major.
FdGetVersion_NoTest ==
    /\ pc = "fd_version"
    /\ calls' = Append(calls, Call("usb_get_version"))
    /\ pc' = "fd_enumerate"
    /\ UNCHANGED <<fd, usb_version, usb_busses, opened, out, err>>
    /\ MainUnchanged

\* version = usb_get_version(); no driver: printf("FALSE"); return;
FdGetVersion ==
    /\ pc = "fd_version"
    /\ calls' = Append(calls, Call("usb_get_version"))
    /\ IF usb_version = 0 - 1
       THEN /\ out' = Append(out, "FALSE")
            /\ pc' = "find_return"
       ELSE /\ pc' = "fd_enumerate"
            /\ out' = out
    /\ UNCHANGED <<fd, usb_version, usb_busses, opened, err>>
    /\ MainUnchanged

\* usb_find_busses(); usb_find_devices(); bus = usb_get_busses();
FdEnumerate ==
    /\ pc = "fd_enumerate"
    /\ calls' = calls \o <<Call("usb_find_busses"), Call("usb_find_devices"),
                           Call("usb_get_busses")>>
    /\ usb_busses' = attached
    /\ fd' = [fd EXCEPT !.bus = 1]
    /\ pc' = "fd_bus"
    /\ UNCHANGED <<usb_version, opened, out, err>>
    /\ MainUnchanged

\* for (bus; bus; bus = bus->next): the test of the outer loop and the start
\* of the inner one, dev = bus->devices.
FdBus ==
    /\ pc = "fd_bus"
    /\ IF fd.bus > Len(usb_busses)
       THEN /\ pc' = "fd_not_found"
            /\ fd' = fd
       ELSE /\ fd' = [fd EXCEPT !.dev = 1]
            /\ pc' = "fd_dev"
    /\ UNCHANGED <<usb_version, usb_busses, opened, out, err, calls>>
    /\ MainUnchanged

\* for (dev; dev; dev = dev->next): the test of the inner loop, and the
\* vendor/product filter with its continue.
FdDev ==
    /\ pc = "fd_dev"
    /\ IF fd.dev > Len(CurBus)
       THEN /\ fd' = [fd EXCEPT !.bus = fd.bus + 1]
            /\ pc' = "fd_bus"
       ELSE IF ~FilterPasses(CurDev, fd.pid)
       THEN /\ fd' = [fd EXCEPT !.dev = fd.dev + 1]
            /\ pc' = "fd_dev"
       ELSE /\ fd' = fd
            /\ pc' = "fd_open"
    /\ UNCHANGED <<usb_version, usb_busses, opened, out, err, calls>>
    /\ MainUnchanged

\* handle = usb_open(dev); if (handle) ...: a device that does not open is
\* passed over.
FdOpen ==
    /\ pc = "fd_open"
    /\ calls' = Append(calls, DevCall("usb_open", fd.bus, fd.dev))
    /\ IF CurDev.openOk
       THEN /\ fd' = [fd EXCEPT !.handle = Ptr(<<fd.bus, fd.dev>>)]
            /\ opened' = opened \cup {<<fd.bus, fd.dev>>}
            /\ pc' = "fd_read"
       ELSE /\ fd' = [fd EXCEPT !.handle = NULL, !.dev = fd.dev + 1]
            /\ opened' = opened
            /\ pc' = "fd_dev"
    /\ UNCHANGED <<usb_version, usb_busses, out, err>>
    /\ MainUnchanged

\* result = FALSE; char dev_serial[100]; ret = usb_get_string_simple(...);
\* if (ret) { if (strcmp(udid, dev_serial) == 0) result = TRUE; }
\* dev_serial is not initialised: a read that fails leaves in it whatever the
\* stack held.
FdRead ==
    /\ pc = "fd_read"
    /\ calls' = Append(calls, DevCall("usb_get_string_simple", fd.bus, fd.dev))
    /\ LET r == usb_get_string_simple(CurDev, DEV_SERIAL_SIZE)
       IN  \E buf \in (IF r.written THEN {r.buf} ELSE Indeterminate) :
               fd' = [fd EXCEPT !.ret = r.ret,
                                !.dev_serial = buf,
                                !.result = (r.ret # 0
                                            /\ strcmp(Deref(fd.udid), buf) = 0)]
    /\ pc' = "fd_close"
    /\ UNCHANGED <<usb_version, usb_busses, opened, out, err>>
    /\ MainUnchanged

\* FdClose that closes the handle of a matching device only.
FdClose_OnlyOnMatch ==
    /\ pc = "fd_close"
    /\ IF fd.result
       THEN /\ calls' = Append(calls, DevCall("usb_close", Deref(fd.handle)[1],
                                              Deref(fd.handle)[2]))
            /\ opened' = opened \ {Deref(fd.handle)}
       ELSE UNCHANGED <<calls, opened>>
    /\ pc' = "fd_report"
    /\ UNCHANGED <<fd, usb_version, usb_busses, out, err>>
    /\ MainUnchanged

\* usb_close(handle);
FdClose ==
    /\ pc = "fd_close"
    /\ calls' = Append(calls, DevCall("usb_close", Deref(fd.handle)[1], Deref(fd.handle)[2]))
    /\ opened' = opened \ {Deref(fd.handle)}
    /\ pc' = "fd_report"
    /\ UNCHANGED <<fd, usb_version, usb_busses, out, err>>
    /\ MainUnchanged

\* FdReport without the return after printf("TRUE").
FdReport_NoReturn ==
    /\ pc = "fd_report"
    /\ out' = IF fd.result THEN Append(out, "TRUE") ELSE out
    /\ fd' = [fd EXCEPT !.dev = fd.dev + 1]
    /\ pc' = "fd_dev"
    /\ UNCHANGED <<usb_version, usb_busses, opened, err, calls>>
    /\ MainUnchanged

\* if (result) { printf("TRUE"); return; }  else the next device.
FdReport ==
    /\ pc = "fd_report"
    /\ IF fd.result
       THEN /\ out' = Append(out, "TRUE")
            /\ pc' = "find_return"
            /\ fd' = fd
       ELSE /\ fd' = [fd EXCEPT !.dev = fd.dev + 1]
            /\ pc' = "fd_dev"
            /\ out' = out
    /\ UNCHANGED <<usb_version, usb_busses, opened, err, calls>>
    /\ MainUnchanged

\* printf("FALSE"); after the loops.
FdNotFound ==
    /\ pc = "fd_not_found"
    /\ out' = Append(out, "FALSE")
    /\ pc' = "find_return"
    /\ UNCHANGED <<fd, usb_version, usb_busses, opened, err, calls>>
    /\ MainUnchanged

\* FindReturn with a failure status when no device was found.
FindReturn_StatusByResult ==
    /\ pc = "find_return"
    /\ retval' = Ptr(IF out = <<"TRUE">> THEN 0 ELSE 1)
    /\ pc' = "exit"
    /\ UNCHANGED <<argv, attached, optind, m, out, err, calls>>
    /\ FindUnchanged

\* main(), case 'f', after the call: return 0;
FindReturn ==
    /\ pc = "find_return"
    /\ retval' = Ptr(0)
    /\ pc' = "exit"
    /\ UNCHANGED <<argv, attached, optind, m, out, err, calls>>
    /\ FindUnchanged

---------------------------------------------------------------------------
(* main(): after the option loop *)

\* idevice_new_with_options(&device, udid, ...): no device, return -1.
IdeviceNew ==
    /\ pc = "idevice_new"
    /\ calls' = Append(calls, Call("idevice_new_with_options"))
    /\ \E success \in BOOLEAN :
          IF ~success
          THEN /\ out' = Append(out, IF m.udid # NULL
                                     THEN "ERROR: Device not found!"
                                     ELSE "ERROR: No device found!")
               /\ retval' = Ptr(0 - 1)
               /\ pc' = "exit"
               /\ m' = m
          ELSE /\ m' = [m EXCEPT !.device = Ptr("device")]
               /\ pc' = IF m.assistive_func = 1 THEN "assistive" ELSE "lockdown"
               /\ UNCHANGED <<out, retval>>
    /\ UNCHANGED <<argv, attached, optind, err>>
    /\ FindUnchanged

\* if (assistive_func == 1) { ... return 0; }
Assistive ==
    /\ pc = "assistive"
    /\ \E connected \in BOOLEAN, success \in BOOLEAN :
          IF ~connected
          THEN /\ calls' = calls \o <<Call("lockdownd_client_new_with_handshake"),
                                      Call("idevice_free")>>
               /\ out' = Append(out, "ERROR: Could not connect to lockdownd")
               /\ retval' = Ptr(0 - 1)
               /\ m' = m
          ELSE /\ calls' = calls \o
                     <<Call("lockdownd_client_new_with_handshake"),
                       Call(IF m.assistive_enable = ASSISTIVE_GET
                            THEN "lockdownd_get_value" ELSE "lockdownd_set_value"),
                       Call("lockdownd_client_free"), Call("idevice_free")>>
               /\ out' = IF ~success THEN out
                         ELSE IF m.assistive_enable = ASSISTIVE_GET
                         THEN Append(out, "plist")
                         ELSE Append(out, "1")
               /\ retval' = Ptr(0)
               /\ m' = [m EXCEPT !.client = Ptr("client")]
    /\ pc' = "exit"
    /\ UNCHANGED <<argv, attached, optind, err>>
    /\ FindUnchanged

\* The lockdown client, the query and its output in the chosen format.
Query ==
    /\ pc = "lockdown"
    /\ \E connected \in BOOLEAN, success \in BOOLEAN :
          IF ~connected
          THEN /\ calls' = calls \o
                     <<Call(IF m.simple = 1 THEN "lockdownd_client_new"
                            ELSE "lockdownd_client_new_with_handshake"),
                       Call("idevice_free")>>
               /\ err' = Append(err, "ERROR: Could not connect to lockdownd")
               /\ retval' = Ptr(0 - 1)
               /\ UNCHANGED <<out, m>>
          ELSE /\ calls' = calls \o
                     <<Call(IF m.simple = 1 THEN "lockdownd_client_new"
                            ELSE "lockdownd_client_new_with_handshake"),
                       Call("lockdownd_get_value"),
                       Call("lockdownd_client_free"), Call("idevice_free")>>
               /\ out' = IF ~success THEN out
                         ELSE IF m.format = FORMAT_XML THEN Append(out, "xml")
                         ELSE Append(out, "plist")
               /\ retval' = Ptr(0)
               /\ m' = [m EXCEPT !.client = Ptr("client")]
               /\ err' = err
    /\ pc' = "exit"
    /\ UNCHANGED <<argv, attached, optind>>
    /\ FindUnchanged

---------------------------------------------------------------------------
(* The specification *)

Next ==
    \/ OptFlag \/ OptUdid \/ OptDomain \/ OptKey \/ OptHelp \/ OptVersion
    \/ OptAssistive \/ OptFind \/ OptDefault \/ GetoptEnd
    \/ FdCheckUdid \/ FdGetVersion \/ FdEnumerate \/ FdBus \/ FdDev
    \/ FdOpen \/ FdRead \/ FdClose \/ FdReport \/ FdNotFound \/ FindReturn
    \/ IdeviceNew \/ Assistive \/ Query

Spec == Init /\ [][Next]_vars

---------------------------------------------------------------------------
(* Vocabulary of the properties *)

Done == pc = "exit"

\* Option i of the command line has been handed to the switch.
Parsed(i) == i \in 1..Len(argv) /\ i < optind

\* find_driver was called for option i (-f with a non-empty argument).
FindCalledAt(i) == Parsed(i) /\ argv[i].opt = "f" /\ argv[i].arg # <<>>
FindCalled == \E i \in 1..Len(argv) : FindCalledAt(i)
FindReturned == FindCalled /\ pc \in {"find_return", "exit"}

\* The identity given by the last -u before option i: NULL when there is none.
UdidsBefore(i) == { j \in 1..(i - 1) : argv[j].opt = "u" }
LastUdidBefore(i) ==
    IF UdidsBefore(i) = {} THEN NULL
    ELSE Ptr(argv[CHOOSE j \in UdidsBefore(i) : \A k \in UdidsBefore(i) : k <= j].arg)

UsbFns ==
    { "usb_init", "usb_get_version", "usb_find_busses", "usb_find_devices",
      "usb_get_busses", "usb_open", "usb_get_string_simple", "usb_close" }
SessionFns ==
    { "idevice_new_with_options", "lockdownd_client_new",
      "lockdownd_client_new_with_handshake", "lockdownd_get_value",
      "lockdownd_set_value" }
CallsOf(fns) == { i \in 1..Len(calls) : calls[i].fn \in fns }
NoUsbCall == CallsOf(UsbFns) = {}

Sentinels(o) == Cardinality({ i \in 1..Len(o) : o[i] \in {"TRUE", "FALSE"} })

\* The attached devices by position <<bus, device>>, in enumerator order.
Positions ==
    { <<b, d>> : b \in 1..MaxBusses + 1, d \in 1..MaxDevices + 1 } \cap
    { pos \in (1..Len(attached)) \X (1..MaxDevices + 1) :
        pos[2] <= Len(attached[pos[1]]) }
At(pos) == attached[pos[1]][pos[2]]
Before(p, q) == p[1] < q[1] \/ (p[1] = q[1] /\ p[2] < q[2])
PosOf(c) == <<c.bus, c.dev>>

\* The device at pos has the fixed vendor id and product id P, opens, and
\* delivers a serial-number string equal to S.
Reports(pos, P, S) ==
    /\ At(pos).idVendor = VID_APPLE
    /\ At(pos).idProduct = P
    /\ At(pos).openOk
    /\ At(pos).readErr = 0
    /\ At(pos).serial = S

SomeDeviceReports ==
    /\ fd.udid # NULL
    /\ \E pos \in Positions : Reports(pos, fd.pid, Deref(fd.udid))

---------------------------------------------------------------------------
(* C1 to C6 *)

\* C1: find_driver reports TRUE only if some attached device has vendor id
\* 0x5ac, the product id asked for, and a serial-number string, actually
\* read from it, that equals the target identity exactly.
C1_Soundness ==
    (FindReturned /\ "TRUE" \in { out[i] : i \in 1..Len(out) }) => SomeDeviceReports

\* C2: find_driver reports TRUE whenever the USB layer is available, the
\* identity is not empty and some attached device of the vendor and product
\* reports a serial number equal to it, and FALSE otherwise.
C2_Completeness ==
    FindReturned =>
        out = IF /\ usb_version # 0 - 1
                 /\ SomeDeviceReports
                 /\ Deref(fd.udid) # <<>>
              THEN <<"TRUE">> ELSE <<"FALSE">>

\* C3 as stated: with an empty or an absent identity the find option prints
\* FALSE and makes no call to the USB layer.
IdentityEmptyOrAbsentAt(i) ==
    /\ i \in 1..Len(argv) /\ argv[i].opt = "f" /\ argv[i].arg # <<>>
    /\ \A j \in 1..(i - 1) : argv[j].opt = "u"
    /\ LastUdidBefore(i) \in {NULL, Ptr(<<>>)}
DriverUnavailable == CallsOf({"usb_init"}) # {} /\ usb_version = 0 - 1
C4_UnavailableIsFalse ==
    DriverUnavailable =>
        /\ CallsOf(UsbFns \ {"usb_init", "usb_get_version"}) = {}
        /\ usb_busses = <<>> /\ opened = {}
        /\ pc \in {"fd_version", "find_return", "exit"}
        /\ pc # "fd_version" => out = <<"FALSE">>
        /\ Done => retval = Ptr(0)

\* C4 witness: the driver is missing while a device that would match is
\* attached, and the program has ended.
C4_Witness ==
    Done /\ DriverUnavailable /\ SomeDeviceReports

\* C5: a device of the vendor and product whose open fails is passed over:
\* the result is TRUE if a later device opens, reads and matches, and FALSE
\* if none does.
FailedOpens ==
    { pos \in Positions :
        /\ ~At(pos).openOk
        /\ \E i \in CallsOf({"usb_open"}) : PosOf(calls[i]) = pos }
C5_FailOpen ==
    FindReturned =>
        \A pos \in FailedOpens :
            out = IF \E q \in Positions :
                        Before(pos, q) /\ Reports(q, fd.pid, Deref(fd.udid))
                  THEN <<"TRUE">> ELSE <<"FALSE">>

\* C6: a device whose serial-number read returns zero or a negative value
\* is treated as not matching.
C6_FailedReadNeverMatches ==
    (pc = "fd_close" /\ fd.ret <= 0) => ~fd.result

---------------------------------------------------------------------------
(* C7 and C8 *)

Opens == CallsOf({"usb_open"})
Reads == CallsOf({"usb_get_string_simple"})
Closes == CallsOf({"usb_close"})

\* C7: devices are opened in enumerator order, none twice and none that
\* passes the filter left out on the way; a device that fails the vendor or
\* product filter is never opened; and once a matching device has been read
\* no device is opened or read after it.
C7_ShortCircuit ==
    /\ \A i \in Opens : \A j \in Opens :
          i < j => Before(PosOf(calls[i]), PosOf(calls[j]))
    /\ \A i \in Opens :
          /\ PosOf(calls[i]) \in Positions
          /\ FilterPasses(At(PosOf(calls[i])), fd.pid)
          /\ \A q \in Positions :
                (Before(q, PosOf(calls[i])) /\ FilterPasses(At(q), fd.pid)) =>
                    \E k \in Opens : k < i /\ PosOf(calls[k]) = q
    /\ \A i \in Reads :
          Reports(PosOf(calls[i]), fd.pid, Deref(fd.udid)) =>
              \A k \in Opens \cup Reads : k <= i

\* C7 witness: the scan has ended on a matching device that another device
\* passing the filter follows.
C7_Witness ==
    /\ Done /\ out = <<"TRUE">>
    /\ \E i \in Reads :
          /\ Reports(PosOf(calls[i]), fd.pid, Deref(fd.udid))
          /\ \E q \in Positions :
                Before(PosOf(calls[i]), q) /\ FilterPasses(At(q), fd.pid) /\ At(q).openOk

\* The number of calls of fn made on the device at pos.
Count(fn, pos) ==
    Cardinality({ i \in CallsOf({fn}) : PosOf(calls[i]) = pos })

\* C8: every handle a successful open returned is closed exactly once,
\* before the next open and before the result is printed; at most one
\* handle is open at any time and none when find_driver has returned.
C8_HandlesReleased ==
    /\ Cardinality(opened) <= 1
    /\ pc \notin {"fd_read", "fd_close"} => opened = {}
    /\ pc \in {"fd_read", "fd_close"} => opened = {Deref(fd.handle)}
    /\ out # <<>> => opened = {}
    /\ \A pos \in Positions :
          /\ Count("usb_close", pos) <= 1
          /\ Count("usb_close", pos) =
                IF At(pos).openOk /\ pos \notin opened
                THEN Count("usb_open", pos) ELSE 0
    /\ \A i \in Closes : \E k \in Reads : k < i /\ PosOf(calls[k]) = PosOf(calls[i])

\* C8 witness: a device whose read failed and a device that did not match
\* were both opened and closed before the scan ended.
C8_Witness ==
    /\ Done
    /\ \E p \in Positions : \E q \in Positions :
          /\ p # q
          /\ Count("usb_close", p) = 1 /\ Count("usb_close", q) = 1
          /\ At(p).readErr < 0

---------------------------------------------------------------------------
(* C9 and C10 *)

HasFindOption == \E i \in 1..Len(argv) : argv[i].opt = "f"

\* C9 as stated: every run whose command line has the find option prints
\* exactly one of TRUE and FALSE and returns 0.
C9_FindAlwaysOneSentinel ==
    (Done /\ HasFindOption) => (Sentinels(out) = 1 /\ retval = Ptr(0))

\* C9 as amended: every run whose option loop reaches -f returns 0; it
\* prints exactly one of TRUE and FALSE, and nothing else, when the argument
\* of -f is not empty, and nothing at all when it is empty. No run prints
\* two sentinels.
C9_ReachedFindOneSentinel ==
    /\ Sentinels(out) <= 1
    /\ \A i \in 1..Len(argv) :
          (Done /\ Parsed(i) /\ argv[i].opt = "f") =>
              /\ retval = Ptr(0)
              /\ err = <<>>
              /\ IF argv[i].arg = <<>>
                 THEN out = <<>>
                 ELSE out \in {<<"TRUE">>, <<"FALSE">>}

\* C9 witness: a run of the find option has ended with TRUE while other
\* runs of it end with FALSE.
C9_Witness ==
    Done /\ FindCalled /\ out = <<"TRUE">> /\ SomeDeviceReports

\* What C10 says of the -f at position i, as stated: it ends the option loop,
\* find_driver runs with the last -u before it, no device or lockdown session
\* is created, and without a -u before it the output is FALSE.
C10_FindUsesUdidSeenSoFar ==
    \A i \in 1..Len(argv) :
        (Parsed(i) /\ argv[i].opt = "f") =>
            /\ optind = i + 1
            /\ fd.udid = LastUdidBefore(i)
            /\ CallsOf(SessionFns) = {} /\ m.device = NULL /\ m.client = NULL
            /\ (Done /\ UdidsBefore(i) = {}) => out = <<"FALSE">>

\* C10 as amended: a -f with a non-empty argument runs find_driver when it
\* is parsed, with the product id atoi of its argument and the identity of
\* the last -u before it; no later option is processed and no device or
\* lockdown session is created; without a -u before it the output is FALSE
\* and the USB layer is not called. A -f with an empty argument ends the
\* program with status 0 and no output, and find_driver does not run.
C10_FindUsesUdidSeenSoFar_NonEmptyArg ==
    \A i \in 1..Len(argv) :
        (Parsed(i) /\ argv[i].opt = "f") =>
            /\ optind = i + 1
            /\ pc # "getopt"
            /\ CallsOf(SessionFns) = {} /\ m.device = NULL /\ m.client = NULL
            /\ IF argv[i].arg = <<>>
               THEN /\ Done /\ retval = Ptr(0)
                    /\ out = <<>> /\ calls = <<>> /\ fd = FindLocals
               ELSE /\ fd.udid = LastUdidBefore(i)
                    /\ fd.pid = atoi(argv[i].arg)
                    /\ UdidsBefore(i) = {} =>
                          /\ NoUsbCall
                          /\ pc # "find_driver" => out = <<"FALSE">>

\* C10 witness: the run has ended FALSE on the identity of the -u before -f
\* although a -u after it names the serial number of an attached device.
C10_Witness ==
    /\ Done /\ out = <<"FALSE">>
    /\ \E i \in 1..Len(argv) :
          /\ FindCalledAt(i) /\ UdidsBefore(i) # {} /\ i < Len(argv)
          /\ argv[i + 1].opt = "u"
          /\ \E pos \in Positions : Reports(pos, fd.pid, argv[i + 1].arg)

====
